---- MODULE Spec2Model ----
(***************************************************************************)
(* Customer-support chat backend (agents-postgresql, agents-sql).          *)
(*                                                                         *)
(* The model follows one request worker through chat() and through the     *)
(* three repository operations of every backend, one storage-driver call   *)
(* per step, against a storage made of the customers, orders and           *)
(* conversation_history tables.  The environment places orders, injects    *)
(* storage and model faults, and collects unreferenced connections.        *)
(***************************************************************************)
EXTENDS Integers, Sequences, FiniteSets, TLC

\* ------------------------------------------------------------------ bounds
MaxTurns  == 3      \* rows of conversation_history
MaxOrders == 1      \* rows of orders
MaxLeaked == 1      \* unreferenced open connections awaiting collection
MaxHistory == 5     \* rows of conversation_history in SpecHistory
HistLimit  == 3     \* largest limit passed in SpecHistory

\* ------------------------------------------------------ program constants
DefaultLimit == 5   \* get_conversation_history(customer_id, limit=5)
RecentLimit  == 5   \* LIMIT 5 / TOP 5 of the order detail query
TicksPerSecond == 2 \* resolution of the stored timestamp under "%H:%M:%S"

\* ----------------------------------------------------------- value domains
Missing == "<missing>"          \* data.get(key) of an absent key: None
CustomerRows == {"c1", "c2"}    \* customer_id values of the customers table
CustomerIds  == CustomerRows \cup {"c9"}
OrderingCustomers == {"c1"}     \* the customers other processes place orders for
Messages == {"hello", "where"}
Replies  == {"reply"}
OrderDates == {1, 2}
OrderAmounts == {7500}
ItemLists == { <<>>, <<"Widget", "Gadget">> }

None == [tag |-> "None"]
NULL == [null |-> TRUE]
Val(n) == [null |-> FALSE, v |-> n]

Profile(c) ==
    [first_name |-> c, last_name |-> "Doe", email |-> "mail", phone |-> "555"]

Min(a, b) == IF a < b THEN a ELSE b

\* (mutant) only an absent field is refused.
Falsy_IsNone(v) == v = Missing

\* Python truthiness of a request field: None and "" are falsy.
Falsy(v) == v \in {Missing, ""}

\* ------------------------------------------------------------- str.lower()
UpperToLower ==
    [c \in {"S", "Q", "L", "C", "O", "M", "P", "Y"} |->
        CASE c = "S" -> "s" [] c = "Q" -> "q" [] c = "L" -> "l"
          [] c = "C" -> "c" [] c = "O" -> "o" [] c = "M" -> "m"
          [] c = "P" -> "p" [] c = "Y" -> "y"]

LowerChar(c) == IF c \in DOMAIN UpperToLower THEN UpperToLower[c] ELSE c

lower(s) == [i \in 1..Len(s) |-> LowerChar(s[i])]

STR_sql        == <<"s", "q", "l">>
STR_cosmos     == <<"c", "o", "s", "m", "o", "s">>
STR_postgresql == <<"p", "o", "s", "t", "g", "r", "e", "s", "q", "l">>

\* Values the DB_TYPE environment variable takes; Unset is an absent variable.
Unset == <<"<unset>">>
DbTypeValues ==
    { <<"S", "Q", "L">>,
      STR_cosmos, <<"C", "o", "s", "m", "o", "s">>,
      <<"m", "y", "s", "q", "l">>, <<"M", "y", "S", "Q", "L">>,
      <<"s", "q", "l", " ">> }

\* os.getenv("DB_TYPE", "postgresql")
getenv_DB_TYPE(env) == IF env = Unset THEN STR_postgresql ELSE env

ValueError(v) == [type |-> "ValueError", msg |-> <<"Unknown database type: ", v>>]

\* (mutant) the identifier is matched as given, without lower().
create_adapter_NoLower(db_type) ==
    IF db_type = STR_sql THEN [ok |-> TRUE, adapter |-> "sql"]
    ELSE IF db_type = STR_cosmos THEN [ok |-> TRUE, adapter |-> "cosmos"]
    ELSE IF db_type = STR_postgresql THEN [ok |-> TRUE, adapter |-> "postgresql"]
    ELSE [ok |-> FALSE, error |-> ValueError(db_type)]

\* DatabaseFactory.create_adapter: the adapter kind, or the ValueError raised.
create_adapter(db_type) ==
    LET t == lower(db_type) IN
    IF t = STR_sql THEN [ok |-> TRUE, adapter |-> "sql"]
    ELSE IF t = STR_cosmos THEN [ok |-> TRUE, adapter |-> "cosmos"]
    ELSE IF t = STR_postgresql THEN [ok |-> TRUE, adapter |-> "postgresql"]
    ELSE [ok |-> FALSE, error |-> ValueError(t)]


\* ------------------------------------------------------------ SQL helpers
\* Every ordering of the elements of the finite set S.
Orderings(S) ==
    { s \in [1..Cardinality(S) -> S] : \A i, j \in 1..Cardinality(S) : s[i] = s[j] => i = j }

Prefix(s, n) == SubSeq(s, 1, Min(n, Len(s)))

RECURSIVE reversed(_)
reversed(s) == IF s = <<>> THEN <<>> ELSE Append(reversed(Tail(s)), Head(s))

\* SUM(total_amount) over the order rows numbered in S (not over an empty set).
RECURSIVE SumAmounts(_, _)
SumAmounts(ords, S) ==
    IF S = {} THEN 0
    ELSE LET i == CHOOSE x \in S : TRUE
         IN ords[i].total_amount + SumAmounts(ords, S \ {i})

\* sep.join(names): the names with the separator between neighbours.
RECURSIVE Join(_, _)
Join(names, sep) ==
    IF Len(names) = 0 THEN <<>>
    ELSE IF Len(names) = 1 THEN <<names[1]>>
    ELSE <<names[1], sep>> \o Join(Tail(names), sep)

\* STRING_AGG(product_name, ', ') of one order group: the aggregation order
\* is the server's choice.
STRING_AGG(items) ==
    { Join([k \in 1..Len(items) |-> items[p[k]]], ", ") : p \in Orderings(1..Len(items)) }

\* strftime("%Y-%m-%d %H:%M:%S") of a stored timestamp: whole seconds.
strftime_seconds(ts) == <<"%Y-%m-%d %H:%M:%S", ts \div TicksPerSecond>>

\* strftime("%Y-%m-%d") of an order date.
strftime_date(d) == <<"%Y-%m-%d", d>>

\* "{:.2f}" of an amount held in cents.
Format2f(cents) == <<cents \div 100, ".", (cents % 100) \div 10, cents % 10>>

\* ------------------------------------------- conversation_history queries
OwnRows(table, customer_id) ==
    { i \in 1..Len(table) : table[i].customer_id = customer_id }

\* SELECT ... WHERE customer_id = ? ORDER BY timestamp DESC LIMIT ? (TOP (?)):
\* the result sets the server may answer with.
HistoryRows(table, customer_id, limit) ==
    { Prefix([k \in 1..Cardinality(OwnRows(table, customer_id)) |-> table[s[k]]], limit) :
        s \in { o \in Orderings(OwnRows(table, customer_id)) :
                  \A a, b \in 1..Len(o) :
                      a < b => table[o[a]].timestamp >= table[o[b]].timestamp } }

MapTurn(row) ==
    [user |-> row.user_message, assistant |-> row.ai_response,
     timestamp |-> strftime_seconds(row.timestamp)]

\* (mutant) the rows are mapped without reversed().
MapHistory_NoReverse(rows) == [k \in 1..Len(rows) |-> MapTurn(rows[k])]

\* The list comprehension over reversed(rows).
MapHistory(rows) ==
    LET r == reversed(rows) IN [k \in 1..Len(r) |-> MapTurn(r[k])]

\* ------------------------------------------------- customer context queries
OrdersOf(ords, customer_id) ==
    { i \in 1..Len(ords) : ords[i].customer_id = customer_id }

\* (mutant) the query answers a row for every customer_id asked for.
CustomerRow_NoWhere(ords, customer_id, coalesce) ==
    [tag |-> "row", profile |-> Profile(customer_id), total_orders |-> 0,
     total_spent |-> IF coalesce THEN Val(0) ELSE NULL]

\* (mutant) customers JOIN orders: a customer without orders has no row.
CustomerRow_InnerJoin(ords, customer_id, coalesce) ==
    LET own == { i \in 1..Len(ords) : ords[i].customer_id = customer_id } IN
    IF customer_id \notin CustomerRows \/ own = {} THEN None
    ELSE [tag |-> "row", profile |-> Profile(customer_id),
          total_orders |-> Cardinality(own),
          total_spent |-> Val(SumAmounts(ords, own))]

\* The aggregate query: customers LEFT JOIN orders, grouped by customer.
\* coalesce is TRUE for the dialect that wraps the sum in COALESCE(..., 0).
CustomerRow(ords, customer_id, coalesce) ==
    IF customer_id \notin CustomerRows THEN None
    ELSE LET own == OrdersOf(ords, customer_id)
             sum == IF own = {} THEN NULL ELSE Val(SumAmounts(ords, own))
         IN [tag |-> "row",
             profile |-> Profile(customer_id),
             total_orders |-> Cardinality(own),
             total_spent |-> IF coalesce /\ sum = NULL THEN Val(0) ELSE sum]

\* orders JOIN order_items JOIN products: only orders with a line item join.
JoinedOrders(ords, customer_id) ==
    { i \in OrdersOf(ords, customer_id) : Len(ords[i].items) > 0 }

DetailRow(ords, i, products) ==
    [order_id |-> i, order_date |-> ords[i].order_date,
     total_amount |-> ords[i].total_amount, status |-> ords[i].status,
     products |-> products]

\* The detail query, grouped per order, ORDER BY order_date DESC, LIMIT 5:
\* the result sets the server may answer with.
DetailRows(ords, customer_id) ==
    LET J == JoinedOrders(ords, customer_id)
        sorted == { o \in Orderings(J) :
                      \A a, b \in 1..Len(o) :
                          a < b => ords[o[a]].order_date >= ords[o[b]].order_date }
        aggs == { f \in [J -> UNION { STRING_AGG(ords[i].items) : i \in J }] :
                      \A i \in J : f[i] \in STRING_AGG(ords[i].items) }
    IN { Prefix([k \in 1..Len(o) |-> DetailRow(ords, o[k], f[o[k]])], RecentLimit) :
            o \in sorted, f \in aggs }

MapOrder(o) ==
    [order_id |-> o.order_id, date |-> strftime_date(o.order_date),
     amount |-> o.total_amount, status |-> o.status, products |-> o.products]

\* float(customer[5]) of the PostgreSQL adapter.
TotalSpent_Float(sum) == sum.v

\* float(customer[5]) if customer[5] else 0 of the SQL Server dialect.
TotalSpent_OrZero(sum) == IF sum = NULL \/ sum.v = 0 THEN 0 ELSE sum.v

\* The dictionary get_customer_context returns.
ContextDict(backend, customer, rows) ==
    [tag |-> "context",
     name |-> <<customer.profile.first_name, " ", customer.profile.last_name>>,
     email |-> customer.profile.email,
     phone |-> customer.profile.phone,
     total_orders |-> customer.total_orders,
     total_spent |-> IF backend = "postgresql"
                     THEN TotalSpent_Float(customer.total_spent)
                     ELSE TotalSpent_OrZero(customer.total_spent),
     recent_orders |-> [k \in 1..Len(rows) |-> MapOrder(rows[k])]]

\* --------------------------------------------------------- prompt assembly
NotFoundMessage(app) ==
    IF app = "agents-postgresql"
    THEN "I couldn't find your customer information. Please verify your customer ID."
    ELSE "Customer not found. Please check your customer ID."

OrderLine(o) ==
    [order_id |-> o.order_id, products |-> o.products,
     amount |-> Format2f(o.amount), status |-> o.status, date |-> o.date]

SystemMessage(app, ctx) ==
    [template |-> app, name |-> ctx.name, email |-> ctx.email, phone |-> ctx.phone,
     total_orders |-> ctx.total_orders, total_spent |-> Format2f(ctx.total_spent),
     lines |-> [k \in 1..Len(ctx.recent_orders) |-> OrderLine(ctx.recent_orders[k])]]

Msg(role, content) == [role |-> role, content |-> content]

RECURSIVE AppendHistory(_, _)
AppendHistory(messages, history) ==
    IF history = <<>> THEN messages
    ELSE AppendHistory(
            Append(Append(messages, Msg("user", Head(history).user)),
                   Msg("assistant", Head(history).assistant)),
            Tail(history))

\* (mutant) the assistant entry of a turn is appended before its user entry.
BuildMessages_AssistantFirst(app, ctx, history, user_message) ==
    Append(<<Msg("system", SystemMessage(app, ctx))>> \o
           [k \in 1..(2 * Len(history)) |->
               IF k % 2 = 1 THEN Msg("assistant", history[(k + 1) \div 2].assistant)
               ELSE Msg("user", history[k \div 2].user)],
           Msg("user", user_message))

\* The messages list generate_ai_response hands to the model.
BuildMessages(app, ctx, history, user_message) ==
    Append(AppendHistory(<<Msg("system", SystemMessage(app, ctx))>>, history),
           Msg("user", user_message))


\* ------------------------------------------------------------------- state
VARIABLES
    orders,                 \* the orders table with its line items, by order_id
    conversation_history,   \* the committed rows of conversation_history
    clock,                  \* the storage server's clock, in ticks
    openConns,              \* storage connections currently open
    leaked,                 \* of these, the ones no running operation owns
    pc,                     \* where the worker is: idle, a step of chat, done
    at,                     \* the driver call the running operation is at
    job,                    \* what the worker runs: a chat request or a direct call
    data,                   \* request.json of the chat request
    db_type,                \* generate_ai_response's local db_type
    db,                     \* the adapter (or the module functions) in use
    args,                   \* the arguments of the running repository operation
    frame,                  \* its local variables: customer row, pending insert
    customer_context,       \* generate_ai_response's locals ...
    history,
    messages,               \* the messages list last sent to the model
    ai_response,
    result,                 \* what the worker hands back to its caller
    ret,                    \* how the last repository operation ended
    trace,                  \* the steps this job has taken
    thread                  \* the thread that made the job's latest driver call

vars == <<orders, conversation_history, clock, openConns, leaked, pc, at, job, data,
          db_type, db, args, frame, customer_context, history, messages,
          ai_response, result, ret, trace, thread>>

storage == <<orders, conversation_history, clock>>
locals  == <<customer_context, history, messages, ai_response>>

Apps     == {"agents-postgresql", "agents-sql"}
Adapters == {"postgresql", "sql", "cosmos"}     \* classes of database.py
Backends == Adapters \cup {"app_sql"}           \* ... and the functions of agents-sql/app.py
Ops == {"get_customer_context", "get_conversation_history", "store_conversation"}

\* The operations of the adapters are coroutines: an event loop runs them, in
\* generate_ai_response the one it creates on the request's own thread and
\* drives with run_until_complete.  The functions of agents-sql/app.py are
\* plain functions, called on the request's thread with no loop.
EventLoop(backend) == backend \in Adapters

\* The adapter hands the body of the operation to asyncio.to_thread.
to_thread(backend) == backend = "sql"

\* The thread on which the driver calls of an operation of backend run:
\* a worker of the loop's default executor, the thread that runs the event
\* loop, or the request's thread where there is no loop.
DriverThread(backend) ==
    IF to_thread(backend) THEN "worker"
    ELSE IF EventLoop(backend) THEN "loop"
    ELSE "request"

NoJob    == [kind |-> "none"]
NoData   == [customer_id |-> Missing, message |-> Missing]
NoArgs   == [customer_id |-> Missing, limit |-> 0, user_message |-> Missing,
             ai_response |-> Missing]
NoFrame  == [customer |-> None, pending |-> None, seen |-> <<>>, failed |-> "-"]
NoResult == [kind |-> "none"]
NoRet    == [op |-> "none"]
NoString == <<>>

Response(text)  == [kind |-> "response", status |-> 200, response |-> text]
ErrorBody(status, e) == [kind |-> "error", status |-> status, error |-> e]
Returned(v)     == [kind |-> "returned", value |-> v]
Raised(e)       == [kind |-> "raised", error |-> e]

StorageError(step) == [type |-> "StorageError", msg |-> step]
ModelError         == [type |-> "ModelError", msg |-> "create"]
\* (mutant) the placeholder fails like a storage failure.
NotImplemented_AsStorageError(op) == [type |-> "StorageError", msg |-> op]

NotImplementedError(op) == [type |-> "NotImplementedError", msg |-> op]
ValidationMessage  == [type |-> "validation", msg |-> "customer_id and message required"]

Init ==
    /\ orders = <<>>
    /\ conversation_history = <<>>
    /\ clock = 1
    /\ openConns = 0
    /\ leaked = 0
    /\ pc = "idle"
    /\ at = "-"
    /\ job = NoJob
    /\ data = NoData
    /\ db_type = NoString
    /\ db = "none"
    /\ args = NoArgs
    /\ frame = NoFrame
    /\ customer_context = None
    /\ history = <<>>
    /\ messages = <<>>
    /\ ai_response = Missing
    /\ result = NoResult
    /\ ret = NoRet
    /\ trace = <<>>
    /\ thread = "-"

\* ------------------------------------------------- entering an operation
\* The caller invokes operation op with arguments a.
Call(op, a) ==
    /\ pc' = op
    /\ at' = "connect"
    /\ args' = a
    /\ frame' = NoFrame

ChatArgs(customer_id, user_message, reply) ==
    [customer_id |-> customer_id, limit |-> DefaultLimit,
     user_message |-> user_message, ai_response |-> reply]

\* conn: what became of the connection of the operation: "none" was opened,
\* it was "closed", or it is still "open".
RetRecord(kind, v, conn, seen) ==
    [op |-> pc, backend |-> db, args |-> args, kind |-> kind, value |-> v,
     conn |-> conn, seen |-> seen]

\* ---------------------------------------------- leaving an operation
\* An exception leaves generate_ai_response and reaches the except clause of
\* chat, which answers {"error": str(e)}, 500; in a direct call it reaches
\* the caller.
Propagate(e) ==
    /\ pc' = "done"
    /\ at' = "-"
    /\ result' = IF job.kind = "chat" THEN ErrorBody(500, e) ELSE Raised(e)
    /\ UNCHANGED <<args, frame>>

\* The running operation raises e.
Raise(e, conn) ==
    /\ ret' = RetRecord("raised", e, conn, frame.seen)
    /\ Propagate(e)
    /\ UNCHANGED locals

\* The running operation returns v: generate_ai_response goes on with its
\* next statement, a direct caller receives v.
Return(v, conn, seen) ==
    /\ ret' = RetRecord("returned", v, conn, seen)
    /\ IF job.kind = "direct"
       THEN /\ pc' = "done"
            /\ at' = "-"
            /\ result' = Returned(v)
            /\ UNCHANGED <<args, frame, locals>>
       ELSE CASE pc = "get_customer_context" ->
                    IF v = None
                    THEN /\ pc' = "done"
                         /\ at' = "-"
                         /\ result' = Response(NotFoundMessage(job.app))
                         /\ UNCHANGED <<args, frame, locals>>
                    ELSE /\ customer_context' = v
                         /\ Call("get_conversation_history",
                                 ChatArgs(data.customer_id, data.message, Missing))
                         /\ UNCHANGED <<result, history, messages, ai_response>>
              [] pc = "get_conversation_history" ->
                    /\ history' = v
                    /\ pc' = "create"
                    /\ at' = "-"
                    /\ UNCHANGED <<args, frame, result, customer_context, messages,
                                   ai_response>>
              [] pc = "store_conversation" ->
                    /\ pc' = "done"
                    /\ at' = "-"
                    /\ result' = Response(ai_response)
                    /\ UNCHANGED <<args, frame, locals>>


\* ------------------------------------------------------------ chat request
\* The run stays within its write bounds: turns rows of conversation_history
\* and placed orders; once orders exist, at most one turn.
WithinBounds(turns, placed) ==
    /\ turns <= MaxTurns
    /\ placed <= MaxOrders
    /\ placed = 0 \/ turns <= 1

\* chat(), lines 119-123 / 179-183: the request arrives and is validated.
chat(app, customer_id, message) ==
    /\ pc = "idle"
    /\ WithinBounds(Len(conversation_history) + 1, Len(orders))
    /\ job' = [kind |-> "chat", app |-> app, turns0 |-> Len(conversation_history)]
    /\ data' = [customer_id |-> customer_id, message |-> message]
    /\ UNCHANGED <<trace, ret, db_type, locals>>
    /\ IF Falsy(customer_id) \/ Falsy(message)
       THEN /\ result' = ErrorBody(400, ValidationMessage)
            /\ pc' = "done"
            /\ UNCHANGED <<at, args, frame, db>>
       ELSE /\ UNCHANGED result
            /\ IF app = "agents-postgresql"
               THEN /\ pc' = "create_adapter"
                    /\ UNCHANGED <<at, args, frame, db>>
               ELSE /\ db' = "app_sql"
                    /\ Call("get_customer_context",
                            ChatArgs(customer_id, message, Missing))
    /\ UNCHANGED <<storage, openConns, leaked>>
    /\ UNCHANGED thread

\* generate_ai_response of agents-postgresql, lines 53-62: read DB_TYPE,
\* create the adapter, call get_customer_context.
resolve(env) ==
    /\ pc = "create_adapter"
    /\ db_type' = getenv_DB_TYPE(env)
    /\ trace' = Append(trace, "create_adapter")
    /\ LET made == create_adapter(db_type') IN
       IF made.ok
       THEN /\ db' = made.adapter
            /\ Call("get_customer_context",
                    ChatArgs(data.customer_id, data.message, Missing))
            /\ UNCHANGED <<result, ret>>
       ELSE /\ Propagate(made.error)
            /\ UNCHANGED <<db, ret>>
    /\ UNCHANGED <<storage, openConns, leaked, job, data, locals>>
    /\ UNCHANGED thread

\* A repository operation called on its own, as a test or another caller does.
direct(backend, op, a) ==
    /\ pc = "idle"
    /\ job' = [kind |-> "direct", app |-> "none", turns0 |-> Len(conversation_history)]
    /\ db' = backend
    /\ Call(op, a)
    /\ UNCHANGED <<storage, openConns, leaked, trace, ret, result, data, db_type, locals>>
    /\ UNCHANGED thread

\* ------------------------------------------------- repository operations
InOperation == pc \in Ops

\* CosmosDBAdapter: every operation raises NotImplementedError at once.
cosmos_operation ==
    /\ InOperation /\ at = "connect" /\ db = "cosmos"
    /\ trace' = Append(trace, pc)
    /\ Raise(NotImplementedError(pc), "none")
    /\ UNCHANGED <<storage, openConns, leaked, job, data, db_type, db>>
    /\ UNCHANGED thread

\* psycopg2.connect / pyodbc.connect at the head of the operation.
connect(ok) ==
    /\ InOperation /\ at = "connect" /\ db # "cosmos"
    /\ trace' = trace \o <<pc, "connect">>
    /\ IF ok
       THEN /\ openConns' = openConns + 1
            /\ at' = "execute"
            /\ UNCHANGED <<pc, args, frame, result, ret, locals>>
       ELSE /\ Raise(StorageError("connect"), "none")
            /\ UNCHANGED openConns
    /\ UNCHANGED <<storage, leaked, job, data, db_type, db>>
    /\ thread' = DriverThread(db)

\* An execute, fetch or commit raises.  No path of the PostgreSQL adapter
\* closes the connection then (except: print, raise): the exception leaves
\* the operation with the connection open.  On the pyodbc paths the exception
\* first reaches the exit of the with block.
fault(step) ==
    /\ InOperation /\ at = step /\ at \in {"execute", "detail", "commit"}
    /\ leaked < MaxLeaked
    /\ trace' = Append(trace, "fault")
    /\ IF db = "postgresql"
       THEN /\ leaked' = leaked + 1
            /\ Raise(StorageError(step), "open")
       ELSE /\ at' = "with_exit"
            /\ frame' = [frame EXCEPT !.failed = step]
            /\ UNCHANGED <<leaked, pc, args, result, ret, locals>>
    /\ UNCHANGED <<storage, openConns, job, data, db_type, db>>
    /\ thread' = DriverThread(db)

\* The exit of `with conn` on an exception: pyodbc rolls the transaction back
\* and does not close the connection, which is left to its deallocator; that
\* runs once the traceback holding the frame is collected.
with_exit ==
    /\ InOperation /\ at = "with_exit"
    /\ leaked' = leaked + 1
    /\ trace' = Append(trace, "rollback")
    /\ Raise(StorageError(frame.failed), "open")
    /\ UNCHANGED <<storage, openConns, job, data, db_type, db>>
    /\ thread' = DriverThread(db)

PendingRow ==
    [tag |-> "row", id |-> clock, customer_id |-> args.customer_id,
     user_message |-> args.user_message, ai_response |-> args.ai_response,
     timestamp |-> clock]

StoredRow(pending) ==
    [id |-> pending.id, customer_id |-> pending.customer_id,
     user_message |-> pending.user_message, ai_response |-> pending.ai_response,
     timestamp |-> pending.timestamp]

\* (mutant) the connection is in autocommit mode: the INSERT is durable at once.
execute_insert_Autocommit ==
    /\ pc = "store_conversation" /\ at = "execute"
    /\ frame' = [frame EXCEPT !.pending = PendingRow]
    /\ conversation_history' = Append(conversation_history, StoredRow(PendingRow))
    /\ at' = "commit"
    /\ trace' = Append(trace, "execute")
    /\ UNCHANGED <<orders, clock, openConns, leaked, pc, job, data,
                   db_type, db, args, locals, result, ret>>
    /\ thread' = DriverThread(db)

\* The INSERT of store_conversation / save_conversation, with the fetchone of
\* the generated id where the dialect returns one.
execute_insert ==
    /\ pc = "store_conversation" /\ at = "execute"
    /\ frame' = [frame EXCEPT !.pending = PendingRow]
    /\ at' = "commit"
    /\ trace' = Append(trace, "execute")
    /\ UNCHANGED <<orders, conversation_history, clock, openConns, leaked, pc, job, data,
                   db_type, db, args, locals, result, ret>>
    /\ thread' = DriverThread(db)

\* conn.commit(), the connection is closed, the operation returns.  The
\* server clock has moved on by the time of the next INSERT: every insert
\* follows a fresh connection, and in a chat request a model call.
commit ==
    /\ pc = "store_conversation" /\ at = "commit"
    /\ conversation_history' = Append(conversation_history, StoredRow(frame.pending))
    /\ clock' = clock + 1
    /\ openConns' = openConns - 1
    /\ trace' = Append(trace, "commit")
    /\ Return(IF db = "app_sql" THEN None ELSE [tag |-> "id", id |-> frame.pending.id],
              "closed", <<>>)
    /\ UNCHANGED <<orders, leaked, job, data, db_type, db>>
    /\ thread' = DriverThread(db)

\* The SELECT of get_conversation_history, fetchall, close, the row mapping.
execute_history ==
    /\ pc = "get_conversation_history" /\ at = "execute"
    /\ \E rows \in HistoryRows(conversation_history, args.customer_id, args.limit) :
           Return(MapHistory(rows), "closed", <<>>)
    /\ openConns' = openConns - 1
    /\ trace' = Append(trace, "execute")
    /\ UNCHANGED <<storage, leaked, job, data, db_type, db>>
    /\ thread' = DriverThread(db)

\* The aggregate query of get_customer_context and its fetchone; without a
\* customer row the connection is closed and None returned.
execute_customer ==
    /\ pc = "get_customer_context" /\ at = "execute"
    /\ trace' = Append(trace, "execute")
    /\ LET customer == CustomerRow(orders, args.customer_id, db = "postgresql") IN
       IF customer = None
       THEN /\ openConns' = openConns - 1
            /\ Return(None, "closed", <<Len(orders)>>)
       ELSE /\ frame' = [frame EXCEPT !.customer = customer, !.seen = <<Len(orders)>>]
            /\ at' = "detail"
            /\ UNCHANGED <<openConns, pc, args, result, ret, locals>>
    /\ UNCHANGED <<storage, leaked, job, data, db_type, db>>
    /\ thread' = DriverThread(db)

\* (mutant) both queries read one snapshot, taken at the first of them.
execute_detail_Snapshot ==
    /\ pc = "get_customer_context" /\ at = "detail"
    /\ trace' = Append(trace, "detail")
    /\ openConns' = openConns - 1
    /\ \E rows \in DetailRows(SubSeq(orders, 1, frame.seen[1]), args.customer_id) :
           Return(ContextDict(db, frame.customer, rows), "closed",
                  Append(frame.seen, Len(orders)))
    /\ UNCHANGED <<storage, leaked, job, data, db_type, db>>
    /\ thread' = DriverThread(db)

\* The detail query of get_customer_context, fetchall, close, the mapping.
\* It is a second statement on the connection, not part of one snapshot with
\* the aggregate query: it reads the orders as they are now.
execute_detail ==
    /\ pc = "get_customer_context" /\ at = "detail"
    /\ trace' = Append(trace, "detail")
    /\ openConns' = openConns - 1
    /\ \E rows \in DetailRows(orders, args.customer_id) :
           Return(ContextDict(db, frame.customer, rows), "closed",
                  Append(frame.seen, Len(orders)))
    /\ UNCHANGED <<storage, leaked, job, data, db_type, db>>
    /\ thread' = DriverThread(db)

\* ------------------------------------------------------------------- model
\* (mutant) a failure of the model call is swallowed and the turn stored
\* without a reply.
create_StoreOnFailure(answers, reply) ==
    /\ pc = "create"
    /\ messages' = BuildMessages(job.app, customer_context, history, data.message)
    /\ trace' = Append(trace, "create")
    /\ ai_response' = IF answers THEN reply ELSE Missing
    /\ Call("store_conversation",
            ChatArgs(data.customer_id, data.message, ai_response'))
    /\ UNCHANGED <<result, ret, customer_context, history>>
    /\ UNCHANGED <<storage, openConns, leaked, job, data, db_type, db>>
    /\ UNCHANGED thread

\* generate_ai_response, lines 70-105 / 136-168: build the messages and call
\* client.chat.completions.create, which answers or raises.
create(answers, reply) ==
    /\ pc = "create"
    /\ messages' = BuildMessages(job.app, customer_context, history, data.message)
    /\ trace' = Append(trace, "create")
    /\ IF answers
       THEN /\ ai_response' = reply
            /\ Call("store_conversation",
                    ChatArgs(data.customer_id, data.message, reply))
            /\ UNCHANGED <<result, ret, customer_context, history>>
       ELSE /\ Propagate(ModelError)
            /\ UNCHANGED <<ret, customer_context, history, ai_response>>
    /\ UNCHANGED <<storage, openConns, leaked, job, data, db_type, db>>
    /\ UNCHANGED thread

\* ----------------------------------------------------------- environment
\* The answer leaves the worker.
respond ==
    /\ pc = "done"
    /\ pc' = "idle"
    /\ job' = NoJob
    /\ data' = NoData
    /\ db_type' = NoString
    /\ db' = "none"
    /\ args' = NoArgs
    /\ frame' = NoFrame
    /\ customer_context' = None
    /\ history' = <<>>
    /\ messages' = <<>>
    /\ ai_response' = Missing
    /\ result' = NoResult
    /\ ret' = NoRet
    /\ trace' = <<>>
    /\ UNCHANGED <<storage, openConns, leaked, at>>
    /\ thread' = "-"

\* Another process places an order for a customer.
place_order(customer_id, order_date, total_amount, items) ==
    /\ WithinBounds(Len(conversation_history), Len(orders) + 1)
    /\ orders' = Append(orders,
                    [customer_id |-> customer_id, order_date |-> order_date,
                     total_amount |-> total_amount, status |-> "Shipped",
                     items |-> items])
    /\ UNCHANGED <<conversation_history, clock, openConns, leaked, pc, at, job, data,
                   db_type, db, args, frame, locals, result, ret, trace>>
    /\ UNCHANGED thread

\* The collector frees the tracebacks of handled exceptions; the connections
\* their frames held are closed by their deallocators.
collect ==
    /\ leaked > 0
    /\ openConns' = openConns - leaked
    /\ leaked' = 0
    /\ UNCHANGED <<storage, pc, at, job, data, db_type, db, args, frame, locals,
                   result, ret, trace>>
    /\ UNCHANGED thread

\* Direct calls next to the chat requests: get_customer_context of every
\* backend, and every operation of the placeholder backend.  (The history and
\* store operations of the other backends are called directly in SpecHistory.)
ContextCalls ==
    \/ \E b \in Backends, c \in CustomerIds :
          direct(b, "get_customer_context", [NoArgs EXCEPT !.customer_id = c])
    \/ \E op \in Ops :
          direct("cosmos", op,
                 [customer_id |-> "c1", limit |-> DefaultLimit,
                  user_message |-> "hello", ai_response |-> "reply"])

Next ==
    \/ \E app \in Apps, c \in CustomerIds \cup {Missing, ""}, m \in Messages \cup {Missing, ""} :
          chat(app, c, m)
    \/ \E env \in DbTypeValues \cup {Unset} : resolve(env)
    \/ ContextCalls
    \/ cosmos_operation
    \/ \E ok \in BOOLEAN : connect(ok)
    \/ \E step \in {"execute", "detail", "commit"} : fault(step)
    \/ with_exit
    \/ execute_insert
    \/ commit
    \/ execute_history
    \/ execute_customer
    \/ execute_detail
    \/ \E answers \in BOOLEAN, reply \in Replies : create(answers, reply)
    \/ respond
    \/ \E c \in OrderingCustomers, d \in OrderDates, t \in OrderAmounts, i \in ItemLists :
          place_order(c, d, t, i)
    \/ collect

Spec == Init /\ [][Next]_vars

\* The three repository operations of every backend, called directly on a
\* conversation_history of up to MaxHistory rows: turns are stored and read
\* back, nothing else runs.
TurnText(k) == IF k % 2 = 1 THEN "hello" ELSE "where"

HistoryCalls ==
    \/ \E b \in Backends, c \in CustomerRows :
          /\ Len(conversation_history) < MaxHistory
          /\ direct(b, "store_conversation",
                    [NoArgs EXCEPT !.customer_id = c,
                                   !.user_message = TurnText(Len(conversation_history) + 1),
                                   !.ai_response = "reply"])
    \/ \E b \in Backends, c \in CustomerIds, n \in 0..HistLimit :
          direct(b, "get_conversation_history",
                 [NoArgs EXCEPT !.customer_id = c, !.limit = n])

NextHistory ==
    \/ HistoryCalls
    \/ cosmos_operation
    \/ \E ok \in BOOLEAN : connect(ok)
    \/ \E step \in {"execute", "commit"} : fault(step)
    \/ with_exit
    \/ execute_insert
    \/ commit
    \/ execute_history
    \/ respond
    \/ collect

SpecHistory == Init /\ [][NextHistory]_vars


\* =================================================================== claims
IsEmpty(v) == v = Missing \/ v = ""

\* The turns stored for customer c, in the order they were stored.
TurnsOf(c) == SelectSeq(conversation_history, LAMBDA r : r.customer_id = c)

TurnOf(row) ==
    [user |-> row.user_message, assistant |-> row.ai_response,
     timestamp |-> <<"%Y-%m-%d %H:%M:%S", row.timestamp \div TicksPerSecond>>]

HistoryReturned ==
    /\ ret.op = "get_conversation_history"
    /\ ret.kind = "returned"

\* C1: get_conversation_history of every backend returns at most limit turns,
\* they are the limit most recently stored turns of the customer (all of them
\* when fewer exist, none when none exist), oldest first.
C1_HistoryIsLatestOldestFirst ==
    HistoryReturned =>
        LET own == TurnsOf(ret.args.customer_id)
            n   == Min(ret.args.limit, Len(own))
        IN /\ Len(ret.value) <= ret.args.limit
           /\ Len(ret.value) = n
           /\ \A k \in 1..n : ret.value[k] = TurnOf(own[Len(own) - n + k])

\* Five turns T1..T5 of one customer are stored, limit is 3, and what came
\* back is T3, T4, T5.
C1_Witness ==
    /\ HistoryReturned
    /\ ret.args.limit = 3
    /\ Len(TurnsOf(ret.args.customer_id)) = 5
    /\ ret.backend = "postgresql"
    /\ ret.value = <<TurnOf(conversation_history[3]), TurnOf(conversation_history[4]),
                     TurnOf(conversation_history[5])>>

ModelWasCalled == job.kind = "chat" /\ messages # <<>>

\* C2: the messages sent to the model are 2 + 2*len(history) entries: system,
\* then per turn of history in its order a user and an assistant entry with
\* the turn's texts, then a user entry with the new message verbatim.
C2_MessagesShape ==
    ModelWasCalled =>
        /\ Len(messages) = 2 + 2 * Len(history)
        /\ messages[1].role = "system"
        /\ \A i \in 1..Len(history) :
              /\ messages[2 * i].role = "user"
              /\ messages[2 * i].content = history[i].user
              /\ messages[2 * i + 1].role = "assistant"
              /\ messages[2 * i + 1].content = history[i].assistant
        /\ messages[Len(messages)].role = "user"
        /\ messages[Len(messages)].content = data.message
        /\ Len(history) = 0 => Len(messages) = 2

\* The model was called with a history of two turns whose user texts differ
\* from each other, the second also from the new message.
C2_Witness ==
    /\ ModelWasCalled
    /\ Len(history) = 2
    /\ history[1].user # history[2].user
    /\ history[2].user # data.message

ContextEnded(kind) ==
    /\ ret.op = "get_customer_context"
    /\ ret.kind = kind

\* C3: for a customer_id without a customer row get_customer_context returns
\* None (every exception it raises is a storage failure, none comes from the
\* missing row), and the chat request ends with the not-found text as a
\* response, without loading history, calling the model or storing a turn.
C3_AbsentCustomer ==
    (ret.op = "get_customer_context" /\ ret.backend # "cosmos"
        /\ ret.args.customer_id \notin CustomerRows) =>
        IF ret.kind = "returned"
        THEN /\ ret.value = None
             /\ job.kind = "chat" =>
                   /\ pc = "done"
                   /\ result = [kind |-> "response", status |-> 200,
                                response |-> NotFoundMessage(job.app)]
                   /\ \A k \in 1..Len(trace) :
                         trace[k] \notin {"get_conversation_history", "create",
                                          "store_conversation", "commit"}
                   /\ messages = <<>>
                   /\ Len(conversation_history) = job.turns0
        ELSE ret.value.type = "StorageError"

\* A chat request for the unknown customer c9 ended with the not-found text.
C3_Witness ==
    /\ job.kind = "chat"
    /\ pc = "done"
    /\ ContextEnded("returned")
    /\ data.customer_id = "c9"
    /\ result.kind = "response"

IsValidationError(r) == r.kind = "error" /\ r.status = 400

\* C4: a chat request with an empty or missing customer_id or message ends
\* with the validation error before a repository is resolved, a connection
\* opened, the model called or a turn stored; a request with both fields
\* non-empty is never refused by validation.
C4_Validation ==
    job.kind = "chat" =>
        IF IsEmpty(data.customer_id) \/ IsEmpty(data.message)
        THEN /\ pc = "done"
             /\ IsValidationError(result)
             /\ trace = <<>>
             /\ db = "none"
             /\ ret = NoRet
             /\ messages = <<>>
             /\ Len(conversation_history) = job.turns0
        ELSE ~IsValidationError(result)

\* A request with a customer_id and an empty message was refused.
C4_Witness ==
    /\ job.kind = "chat"
    /\ data.customer_id = "c1"
    /\ data.message = ""
    /\ IsValidationError(result)

\* The orders table as the k-th query of the last get_customer_context saw it.
SeenOrders(k) == SubSeq(orders, 1, ret.seen[k])

\* C5: for a customer that exists and has no orders (none at the last query
\* the operation made), get_customer_context of every backend returns a
\* context, not None, with total_orders 0, total_spent 0 and no recent orders.
C5_ZeroOrders ==
    (ContextEnded("returned") /\ ret.args.customer_id \in CustomerRows
        /\ \A i \in 1..ret.seen[Len(ret.seen)] :
              orders[i].customer_id # ret.args.customer_id) =>
        /\ ret.value # None
        /\ ret.value.total_orders = 0
        /\ ret.value.total_spent = 0
        /\ ret.value.recent_orders = <<>>

\* The SQL Server dialect (no COALESCE) answered for a customer without
\* orders while another customer has one.
C5_Witness ==
    /\ ContextEnded("returned")
    /\ ret.backend = "sql"
    /\ ret.args.customer_id = "c2"
    /\ Len(ret.seen) = 2
    /\ ret.seen[2] >= 1
    /\ ret.value.total_orders = 0

KnownBackend(t) == t \in {STR_sql, STR_cosmos, STR_postgresql}

BackendNamed(t) ==
    CASE t = STR_sql -> "sql" [] t = STR_cosmos -> "cosmos"
      [] t = STR_postgresql -> "postgresql"

Resolved == job.kind = "chat" /\ Len(trace) > 0 /\ trace[1] = "create_adapter"

ConfigurationError(r, named) ==
    /\ r.kind = "error"
    /\ r.error.type = "ValueError"
    /\ r.error.msg[2] = named

\* What C6 says of every resolution, but for the value the error names.
C6_Selection(named) ==
    Resolved =>
        IF KnownBackend(lower(db_type))
        THEN /\ db = BackendNamed(lower(db_type))
             /\ ~(result.kind = "error" /\ result.error.type = "ValueError")
        ELSE /\ pc = "done"
             /\ ConfigurationError(result, named)
             /\ trace = <<"create_adapter">>
             /\ ret = NoRet
             /\ messages = <<>>
             /\ Len(conversation_history) = job.turns0

\* C6 (as stated): create_adapter matches the identifier case-insensitively
\* against {sql, cosmos, postgresql}; every other identifier fails with a
\* configuration error naming the offending value, before any connection
\* attempt, model call or stored turn of the request.
C6_NamesOffendingValue == C6_Selection(db_type)

\* C6 (amended): as above, the error naming the lower-cased form of the
\* offending value.
C6_NamesLoweredValue == C6_Selection(lower(db_type))

\* DB_TYPE=MySQL was refused.
C6_Witness ==
    /\ Resolved
    /\ db_type = <<"M", "y", "S", "Q", "L">>
    /\ pc = "done"
    /\ result.kind = "error"

StoreFailed ==
    /\ job.kind = "chat"
    /\ ret.op = "store_conversation"
    /\ ret.kind = "raised"

\* C7: when the model call succeeded and store_conversation then fails, the
\* request ends with an error response carrying the failure, the reply the
\* model gave is still there, and no turn of the request is in storage.
C7_StoreFailureSurfaces ==
    StoreFailed =>
        /\ pc = "done"
        /\ result.kind = "error"
        /\ result.error = ret.value
        /\ ai_response \in Replies
        /\ \E k \in 1..Len(trace) : trace[k] = "create"
        /\ Len(conversation_history) = job.turns0

\* The commit of a chat request's turn failed.
C7_Witness ==
    /\ StoreFailed
    /\ ret.value = [type |-> "StorageError", msg |-> "commit"]
    /\ pc = "done"

\* C8 (as stated): every connection a repository operation opens is released
\* within the operation on every exit path, so that no connection is open
\* when no operation is running.
C8_ConnectionsReleased ==
    /\ ret.op \in Ops => ret.conn # "open"
    /\ pc \notin Ops => openConns = 0

\* C9 (as stated): recent_orders holds min(5, number of the customer's
\* orders) records, the newest orders by order date, newest first, each with
\* the comma-join of its line items' product names; an order without line
\* items is listed with empty products.
C9_RecentOrders ==
    (ContextEnded("returned") /\ ret.value # None) =>
        LET seen == SeenOrders(2)
            own  == { i \in 1..Len(seen) : seen[i].customer_id = ret.args.customer_id }
            ro   == ret.value.recent_orders
            ids  == { ro[k].order_id : k \in 1..Len(ro) }
        IN /\ Len(ro) = Min(5, Cardinality(own))
           /\ Cardinality(ids) = Len(ro)
           /\ ids \subseteq own
           /\ \A k \in 1..Len(ro) : \A j \in own \ ids :
                 seen[j].order_date <= seen[ro[k].order_id].order_date
           /\ \A k \in 1..(Len(ro) - 1) :
                 seen[ro[k].order_id].order_date >= seen[ro[k + 1].order_id].order_date
           /\ \A k \in 1..Len(ro) :
                 LET items == seen[ro[k].order_id].items IN
                 IF items = <<>> THEN ro[k].products = <<>>
                 ELSE \/ ro[k].products = <<items[1], ", ", items[2]>>
                      \/ ro[k].products = <<items[2], ", ", items[1]>>

\* C10: with the cosmos backend every repository operation raises
\* NotImplementedError at once, which is no storage error, and opens no
\* connection; a chat request on it ends with an error response, the model
\* not called and no turn stored.
C10_CosmosNotImplemented ==
    /\ (ret.op \in Ops /\ ret.backend = "cosmos") =>
          /\ ret.kind = "raised"
          /\ ret.value = [type |-> "NotImplementedError", msg |-> ret.op]
          /\ ret.value.type # "StorageError"
          /\ ret.conn = "none"
          /\ trace[Len(trace)] = ret.op
          /\ \A k \in 1..Len(trace) : trace[k] \notin {"connect", "execute", "commit"}
    /\ (job.kind = "chat" /\ db = "cosmos") =>
          /\ pc = "done" => /\ result.kind = "error"
                            /\ result.error.type = "NotImplementedError"
          /\ pc # "done" => pc = "get_customer_context" /\ at = "connect"
          /\ messages = <<>>
          /\ Len(conversation_history) = job.turns0

\* store_conversation was called on the cosmos adapter and raised.
C10_Witness ==
    /\ ret.op = "store_conversation"
    /\ ret.backend = "cosmos"
    /\ ret.kind = "raised"

\* C11 (as stated): every storage-driver call (connect, execute, fetch,
\* commit) of an operation that an event loop runs is made on a worker of
\* the offload pool, never on the thread that runs the loop, whichever the
\* backend.
C11_DriverCallsOffloaded ==
    (EventLoop(db) /\ thread # "-") => (thread = "worker" /\ thread # "loop")

\* The customer's orders among the first n rows of the orders table.
OwnOrders(c, n) == { i \in 1..n : orders[i].customer_id = c }

RecentIds(ctx) == { ctx.recent_orders[k].order_id : k \in 1..Len(ctx.recent_orders) }

BothReadsMade == ret.op = "get_customer_context" /\ Len(ret.seen) = 2

\* C12: get_customer_context reads the aggregates and the recent orders in
\* two separate reads, each of the orders as they are at its own time:
\* total_orders and total_spent count the customer's orders at the first
\* read, recent_orders lists the orders (with line items) at the second, so
\* an order placed in between is listed and not counted; once both reads are
\* made the operation returns that context as a success, having made each
\* read once.
C12_TwoSeparateReads ==
    BothReadsMade =>
        LET c      == ret.args.customer_id
            first  == OwnOrders(c, ret.seen[1])
            second == { i \in OwnOrders(c, ret.seen[2]) : orders[i].items # <<>> }
        IN /\ ret.kind = "returned"
           /\ ret.value # None
           /\ ret.seen[1] <= ret.seen[2]
           /\ ret.value.total_orders = Cardinality(first)
           /\ ret.value.total_spent = SumAmounts(orders, first)
           /\ Cardinality(second) <= RecentLimit => RecentIds(ret.value) = second
           /\ Cardinality({ k \in 1..Len(trace) : trace[k] = "detail" }) = 1
           /\ (job.kind = "direct" /\ pc = "done") => result = Returned(ret.value)

\* An order was placed between the two reads: the context that came back
\* lists it in recent_orders and counts no order and no spending.
C12_Witness ==
    /\ BothReadsMade
    /\ ret.seen = <<0, 1>>
    /\ ret.kind = "returned"
    /\ ret.value.total_orders = 0
    /\ ret.value.total_spent = 0
    /\ RecentIds(ret.value) = {1}
    /\ result = Returned(ret.value)

\* The steps of generate_ai_response among the steps the job has taken.
StepNames == {"create_adapter", "create"} \cup Ops

Steps == SelectSeq(trace, LAMBDA t : t \in StepNames)

StepOrder(app) ==
    IF app = "agents-postgresql"
    THEN <<"create_adapter", "get_customer_context", "get_conversation_history",
           "create", "store_conversation">>
    ELSE <<"get_customer_context", "get_conversation_history",
           "create", "store_conversation">>

Took(step) == \E k \in 1..Len(trace) : trace[k] = step

\* The calls that can fail, as the trace names a failed one.
FailedSteps == {"create_adapter", "connect", "fault", "rollback", "create"} \cup Ops

TurnStored ==
    /\ Len(conversation_history) = job.turns0 + 1
    /\ LET row == conversation_history[Len(conversation_history)]
       IN /\ row.customer_id = data.customer_id
          /\ row.user_message = data.message
          /\ row.ai_response = ai_response

\* C13: a chat request takes its steps in the order resolve, context,
\* history, model, store, respond, each at most once; the model is called
\* only with context and history loaded; store_conversation is called only
\* after the model gave a reply, with the request's customer id and message
\* and that reply; a failed step is the last step taken, and a request whose
\* model call failed stores nothing; the response carrying the model's text
\* is given only once the turn is stored.
C13_StepOrder ==
    job.kind = "chat" =>
        /\ Len(Steps) <= Len(StepOrder(job.app))
        /\ Steps = SubSeq(StepOrder(job.app), 1, Len(Steps))
        /\ pc = "create" =>
              /\ ret.op = "get_conversation_history"
              /\ ret.kind = "returned"
              /\ history = ret.value
              /\ customer_context # None
              /\ ~Took("create")
        /\ Took("create") =>
              /\ customer_context # None
              /\ Took("get_customer_context")
              /\ Took("get_conversation_history")
        /\ pc = "store_conversation" =>
              /\ Took("create")
              /\ ai_response \in Replies
              /\ args.customer_id = data.customer_id
              /\ args.user_message = data.message
              /\ args.ai_response = ai_response
        /\ Len(conversation_history) \in {job.turns0, job.turns0 + 1}
        /\ Len(conversation_history) = job.turns0 + 1 => TurnStored
        /\ result.kind = "error" =>
              /\ pc = "done"
              /\ trace = <<>> \/ trace[Len(trace)] \in FailedSteps
              /\ Len(conversation_history) = job.turns0
        /\ (result.kind = "error" /\ result.error = ModelError) =>
              /\ trace[Len(trace)] = "create"
              /\ ~Took("store_conversation")
              /\ ai_response = Missing
        /\ (result.kind = "response" /\ Took("create")) =>
              /\ pc = "done"
              /\ result.response = ai_response
              /\ trace[Len(trace)] = "commit"
              /\ TurnStored
        /\ result.kind # "none" <=> pc = "done"

\* A request to agents-postgresql on the sql adapter went through all its
\* steps, with a turn of history, and was answered with the model's reply.
C13_Witness ==
    /\ job.kind = "chat"
    /\ job.app = "agents-postgresql"
    /\ db = "sql"
    /\ pc = "done"
    /\ Steps = StepOrder(job.app)
    /\ Len(history) = 1
    /\ result = Response("reply")
    /\ TurnStored

====
